---- MODULE Spec2Model ----
(***************************************************************************)
(* A model of src/common/utils.py: the generator                           *)
(* iterate_elements_in_batches, the environment reader get_env / load_envs *)
(* and the hyperparameter forwarding of log_hyperparameters.               *)
(*                                                                         *)
(* A tensor is [shape, data]: shape is the tuple of dimensions (<<>> for a *)
(* rank-0 scalar) and data the row-major sequence of its entries.          *)
(***************************************************************************)
EXTENDS Integers, Sequences, FiniteSets, TLC

VARIABLES
    outputs,      \* argument: the list of output dictionaries
    batch_size,   \* argument: the size of each batch
    n_elements,   \* argument: the number of elements to iterate over
    count,        \* local of the generator frame
    oi,           \* position of `output` in outputs (0-based), the outer loop
    i,            \* the inner loop variable
    pc,           \* where the generator frame is
    yielded,      \* what the consumer received so far, in order
    last,         \* what the last next() call gave the consumer
    extraPulls,   \* next() calls made on the finished generator
    environ,      \* os.environ
    envCall,      \* the last get_env call and its outcome
    logged,       \* what the logger of the trainer recorded, in order
    logDisabled,  \* trainer.logger.log_hyperparams is the no-op lambda
    logCalls,     \* calls of log_hyperparameters made so far
    trainerCalls, \* calls of the logger made by the trainer itself
    firstSent     \* the hparams built by the first log_hyperparameters call

iterVars == <<outputs, batch_size, n_elements, count, oi, i, pc, yielded, last, extraPulls>>
envVars == <<environ, envCall>>
logVars == <<logged, logDisabled, logCalls, trainerCalls, firstSent>>
vars == <<iterVars, envVars, logVars>>

-----------------------------------------------------------------------------
(* Bounds of the model *)

MaxRecords == 2
MaxBatch == 2
MaxLead == 2
MaxN == 5
MaxExtraPulls == 2
MaxParams == 2
MaxCalls == 2
MaxTrainerCalls == 2
MaxNumel == 2

Min(a, b) == IF a <= b THEN a ELSE b

RECURSIVE Prod(_)
Prod(s) == IF s = <<>> THEN 1 ELSE Head(s) * Prod(Tail(s))

-----------------------------------------------------------------------------
(* Tensors *)

\* a rank-0 tensor holding v
Scalar(v) == [shape |-> <<>>, data |-> <<v>>]

\* a rank-1 tensor of leading dimension L: base, base+10, ...
Arange(base, L) == [shape |-> <<L>>, data |-> [j \in 1..L |-> base + 10 * (j - 1)]]

\* a rank-2 tensor of shape (L, 2): rows (base, base+1), (base+10, base+11), ...
Matrix(base, L) ==
    [shape |-> <<L, 2>>,
     data |-> [j \in 1..(2 * L) |-> base + 10 * ((j - 1) \div 2) + ((j - 1) % 2)]]

\* len(value.shape)
Rank(value) == Len(value.shape)

\* value[k] is defined: k is inside the leading dimension
InBounds(value, k) == k < value.shape[1]

\* value[k]: the k-th slice (0-based) along the leading dimension
Index(value, k) ==
    LET rest == Tail(value.shape)
        stride == Prod(rest)
    IN  [shape |-> rest,
         data |-> [j \in 1..stride |-> value.data[k * stride + j]]]

-----------------------------------------------------------------------------
(* iterate_elements_in_batches *)

\* faulty variant: every non-scalar field is read at offset 0
ProjectFieldFirst(value, k) == IF Rank(value) = 0 THEN value ELSE Index(value, 0)

\* value if len(value.shape) == 0 else value[i]
ProjectField(value, k) == IF Rank(value) = 0 THEN value ELSE Index(value, k)

\* the dictionary comprehension raises IndexError for some key
ProjectRaises(output, k) ==
    \E key \in DOMAIN output :
        Rank(output[key]) # 0 /\ ~InBounds(output[key], k)

\* {key: ... for key, value in output.items()}
Project(output, k) == [key \in DOMAIN output |-> ProjectField(output[key], k)]

\* faulty variant: the test is count > n_elements
LimitReachedGt(c, n) == c > n

\* faulty variant: the test is count == n_elements
LimitReachedEq(c, n) == c = n

\* faulty variant: the test is count >= n_elements - 1
LimitReachedEarly(c, n) == c >= n - 1

\* if count >= n_elements
LimitReached(c, n) == c >= n

\* the two loops have another (output, i) pair after the current one
HasNext ==
    IF pc = "created"
    THEN Len(outputs) > 0 /\ batch_size > 0
    ELSE i + 1 < batch_size \/ oi + 1 < Len(outputs)

\* faulty variant: the inner loop runs one offset too far
NextPosOver(o, k, bs) == IF k + 1 <= bs THEN <<o, k + 1>> ELSE <<o + 1, 0>>

\* the (output, i) pair after (o, k): the inner range first, then the next output
NextPos(o, k, bs) == IF k + 1 < bs THEN <<o, k + 1>> ELSE <<o + 1, 0>>

\* the pair the resumed frame reaches
Target == IF pc = "created" THEN <<0, 0>> ELSE NextPos(oi, i, batch_size)

Running == pc \in {"created", "yielded"}
Finished == pc \in {"returned", "exhausted", "raised"}

\* next(): the frame reaches `yield` and hands one element to the consumer
PullYield ==
    /\ Running /\ HasNext
    /\ ~LimitReached(count + 1, n_elements)
    /\ ~ProjectRaises(outputs[Target[1] + 1], Target[2])
    /\ count' = count + 1
    /\ oi' = Target[1]
    /\ i' = Target[2]
    /\ yielded' = Append(yielded,
                         [rec |-> Target[1], off |-> Target[2],
                          elem |-> Project(outputs[Target[1] + 1], Target[2])])
    /\ pc' = "yielded"
    /\ last' = "element"
    /\ UNCHANGED <<outputs, batch_size, n_elements, extraPulls>>

\* next(): the updated count reaches n_elements and the frame returns
PullReturn ==
    /\ Running /\ HasNext
    /\ LimitReached(count + 1, n_elements)
    /\ count' = count + 1
    /\ oi' = Target[1]
    /\ i' = Target[2]
    /\ pc' = "returned"
    /\ last' = "StopIteration"
    /\ UNCHANGED <<outputs, batch_size, n_elements, yielded, extraPulls>>

\* next(): both loops are over and the frame falls off the end
PullExhaust ==
    /\ Running /\ ~HasNext
    /\ pc' = "exhausted"
    /\ last' = "StopIteration"
    /\ UNCHANGED <<outputs, batch_size, n_elements, count, oi, i, yielded, extraPulls>>

\* faulty variant: the IndexError is swallowed and the loop goes on
PullRaiseSkip ==
    /\ Running /\ HasNext
    /\ ~LimitReached(count + 1, n_elements)
    /\ ProjectRaises(outputs[Target[1] + 1], Target[2])
    /\ count' = count + 1
    /\ oi' = Target[1]
    /\ i' = Target[2]
    /\ pc' = "yielded"
    /\ last' = "IndexError"
    /\ UNCHANGED <<outputs, batch_size, n_elements, yielded, extraPulls>>

\* next(): value[i] is out of range; the IndexError leaves the frame, which is closed
PullRaise ==
    /\ Running /\ HasNext
    /\ ~LimitReached(count + 1, n_elements)
    /\ ProjectRaises(outputs[Target[1] + 1], Target[2])
    /\ count' = count + 1
    /\ oi' = Target[1]
    /\ i' = Target[2]
    /\ pc' = "raised"
    /\ last' = "IndexError"
    /\ UNCHANGED <<outputs, batch_size, n_elements, yielded, extraPulls>>

\* faulty variant: a pull on the finished generator starts the loops again
PullFinishedRestart ==
    /\ Finished
    /\ extraPulls < MaxExtraPulls
    /\ extraPulls' = extraPulls + 1
    /\ pc' = "created"
    /\ count' = 0
    /\ last' = "StopIteration"
    /\ UNCHANGED <<outputs, batch_size, n_elements, oi, i, yielded>>

\* next() on a finished generator: StopIteration, the frame is gone
PullFinished ==
    /\ Finished
    /\ extraPulls < MaxExtraPulls
    /\ extraPulls' = extraPulls + 1
    /\ last' = "StopIteration"
    /\ UNCHANGED <<outputs, batch_size, n_elements, count, oi, i, pc, yielded>>

-----------------------------------------------------------------------------
(* The arguments the generator is called with *)

XTensors ==
    {Arange(10, L) : L \in 1..MaxLead} \cup {Arange(30, MaxLead), Matrix(50, MaxLead)}

OutputSet ==
    {[x |-> t] : t \in XTensors} \cup {[x |-> t, s |-> Scalar(7)] : t \in XTensors}

OutputLists == UNION {[1..n -> OutputSet] : n \in 0..MaxRecords}

BatchSizes == 0..MaxBatch

NElements == -1..MaxN

\* count = 0 and a frame that has not run yet
InitIter ==
    /\ outputs \in OutputLists
    /\ batch_size \in BatchSizes
    /\ n_elements \in NElements
    /\ count = 0
    /\ oi = 0
    /\ i = 0
    /\ pc = "created"
    /\ yielded = <<>>
    /\ last = "none"
    /\ extraPulls = 0

NextIter ==
    \/ PullYield /\ UNCHANGED <<envVars, logVars>>
    \/ PullReturn /\ UNCHANGED <<envVars, logVars>>
    \/ PullExhaust /\ UNCHANGED <<envVars, logVars>>
    \/ PullRaise /\ UNCHANGED <<envVars, logVars>>
    \/ PullFinished /\ UNCHANGED <<envVars, logVars>>

-----------------------------------------------------------------------------
(* get_env and load_envs *)

\* default=None
None == <<>>

EnvNames == {"PROJECT_ROOT", "DATA_DIR"}
EnvValues == {"", "/proj", "/data"}
Defaults == {None, <<"">>, <<"/dflt">>}

\* the mappings os.environ can be
Environments == UNION {[D -> EnvValues] : D \in SUBSET EnvNames}

\* faulty variant: the emptiness test is missing
GetEnvNoEmptyTest(env, env_name, default) ==
    IF env_name \notin DOMAIN env
    THEN IF default = None
         THEN [kind |-> "KeyError"]
         ELSE [kind |-> "return", value |-> default[1]]
    ELSE [kind |-> "return", value |-> env[env_name]]

\* get_env(env_name, default) read against the environment env
GetEnv(env, env_name, default) ==
    IF env_name \notin DOMAIN env
    THEN IF default = None
         THEN [kind |-> "KeyError"]
         ELSE [kind |-> "return", value |-> default[1]]
    ELSE IF env[env_name] = ""
         THEN IF default = None
              THEN [kind |-> "ValueError"]
              ELSE [kind |-> "return", value |-> default[1]]
         ELSE [kind |-> "return", value |-> env[env_name]]

\* a call of get_env; envCall keeps the arguments, the environment read and the outcome
CallGetEnv(env_name, default) ==
    /\ envCall' = [kind |-> "get_env", env_name |-> env_name, default |-> default,
                   seen |-> environ, result |-> GetEnv(environ, env_name, default)]
    /\ UNCHANGED environ

\* load_envs(env_file): dotenv.load_dotenv(..., override=True) with the file's pairs
LoadEnvs(file) ==
    /\ environ' = [k \in DOMAIN environ \cup DOMAIN file |->
                      IF k \in DOMAIN file THEN file[k] ELSE environ[k]]
    /\ UNCHANGED envCall

IdleEnv ==
    /\ environ = <<>>
    /\ envCall = [kind |-> "none"]

\* the module was imported: load_envs() ran and get_env("PROJECT_ROOT") returned
InitEnv ==
    /\ environ \in {e \in Environments :
                      GetEnv(e, "PROJECT_ROOT", None).kind = "return"}
    /\ envCall = [kind |-> "none"]
    /\ outputs = <<>>
    /\ batch_size = 0
    /\ n_elements = 0
    /\ count = 0
    /\ oi = 0
    /\ i = 0
    /\ pc = "created"
    /\ yielded = <<>>
    /\ last = "none"
    /\ extraPulls = 0
    /\ logged = <<>>
    /\ logDisabled = FALSE
    /\ logCalls = 0
    /\ trainerCalls = 0
    /\ firstSent = <<>>

NextEnv ==
    \/ \E env_name \in EnvNames, default \in Defaults :
          CallGetEnv(env_name, default) /\ UNCHANGED <<iterVars, logVars>>
    \/ \E file \in Environments :
          LoadEnvs(file) /\ UNCHANGED <<iterVars, logVars>>

-----------------------------------------------------------------------------
(* log_hyperparameters *)

Cfgs == {"cfg_a", "cfg_b"}

\* a parameter tensor of the model: p.numel() and p.requires_grad
ParamSet == [numel : 0..MaxNumel, requires_grad : BOOLEAN]

\* model.parameters()
ModelSet == UNION {[1..n -> ParamSet] : n \in 0..MaxParams}

RECURSIVE SumNumel(_, _)
\* sum(p.numel() for p in params if keep(p)), keep given as the set of kept flags
SumNumel(params, flags) ==
    IF params = <<>> THEN 0
    ELSE (IF Head(params).requires_grad \in flags THEN Head(params).numel ELSE 0)
         + SumNumel(Tail(params), flags)

ParamsTotal(model) == SumNumel(model, BOOLEAN)
ParamsTrainable(model) == SumNumel(model, {TRUE})
ParamsNotTrainable(model) == SumNumel(model, {FALSE})

\* hparams: the container of cfg with the three stats/ entries added
Hparams(cfg, model) ==
    [cfg |-> cfg,
     params_total |-> ParamsTotal(model),
     params_trainable |-> ParamsTrainable(model),
     params_not_trainable |-> ParamsNotTrainable(model)]

\* trainer.logger.log_hyperparams(params): the logger's own method, or the no-op lambda
LoggerLogHyperparams(by, params) ==
    IF logDisabled THEN logged ELSE Append(logged, [by |-> by, params |-> params])

\* faulty variant: the logger's method is not replaced
LogHyperparametersKeepsLogging(cfg, model) ==
    /\ logCalls < MaxCalls
    /\ logged' = LoggerLogHyperparams("log_hyperparameters", Hparams(cfg, model))
    /\ logDisabled' = logDisabled
    /\ logCalls' = logCalls + 1
    /\ firstSent' = IF logCalls = 0 THEN <<Hparams(cfg, model)>> ELSE firstSent
    /\ UNCHANGED trainerCalls

\* log_hyperparameters(cfg, model, trainer)
LogHyperparameters(cfg, model) ==
    /\ logCalls < MaxCalls
    /\ logged' = LoggerLogHyperparams("log_hyperparameters", Hparams(cfg, model))
    /\ logDisabled' = TRUE
    /\ logCalls' = logCalls + 1
    /\ firstSent' = IF logCalls = 0 THEN <<Hparams(cfg, model)>> ELSE firstSent
    /\ UNCHANGED trainerCalls

\* the trainer logs the hparams of the model through trainer.logger.log_hyperparams
TrainerLogsHparams(cfg) ==
    /\ trainerCalls < MaxTrainerCalls
    /\ logged' = LoggerLogHyperparams("trainer", [cfg |-> cfg])
    /\ trainerCalls' = trainerCalls + 1
    /\ UNCHANGED <<logDisabled, logCalls, firstSent>>

IdleLog ==
    /\ logged = <<>>
    /\ logDisabled = FALSE
    /\ logCalls = 0
    /\ trainerCalls = 0
    /\ firstSent = <<>>

\* a trainer whose logger has its own log_hyperparams and has recorded nothing
InitLog ==
    /\ logged = <<>>
    /\ logDisabled = FALSE
    /\ logCalls = 0
    /\ trainerCalls = 0
    /\ firstSent = <<>>
    /\ environ = <<>>
    /\ envCall = [kind |-> "none"]
    /\ outputs = <<>>
    /\ batch_size = 0
    /\ n_elements = 0
    /\ count = 0
    /\ oi = 0
    /\ i = 0
    /\ pc = "created"
    /\ yielded = <<>>
    /\ last = "none"
    /\ extraPulls = 0

NextLog ==
    \/ \E cfg \in Cfgs, model \in ModelSet :
          LogHyperparameters(cfg, model) /\ UNCHANGED <<iterVars, envVars>>
    \/ \E cfg \in Cfgs :
          TrainerLogsHparams(cfg) /\ UNCHANGED <<iterVars, envVars>>

-----------------------------------------------------------------------------
(* Properties of iterate_elements_in_batches *)

\* len(outputs) * batch_size, the number of (output, i) pairs of the two loops
Avail == Len(outputs) * batch_size

\* the generator ended by its own return or by running out of records
EndedNormally == pc \in {"returned", "exhausted"}

\* every non-scalar field of every record has a leading dimension >= batch_size
WellShaped ==
    \A r \in 1..Len(outputs) : \A key \in DOMAIN outputs[r] :
        Rank(outputs[r][key]) # 0 => outputs[r][key].shape[1] >= batch_size

\* the record (0-based) and the offset of the k-th pair of the two loops, k from 1
RecOf(k) == (k - 1) \div batch_size
OffOf(k) == (k - 1) % batch_size

\* the k-th pair cannot be projected: some non-scalar field is too short for its offset
RaisesAt(k) ==
    \E key \in DOMAIN outputs[RecOf(k) + 1] :
        /\ outputs[RecOf(k) + 1][key].shape # <<>>
        /\ outputs[RecOf(k) + 1][key].shape[1] <= OffOf(k)

\* the number of pairs before the first one that cannot be projected
BeforeFirstRaise ==
    IF \E k \in 1..Avail : RaisesAt(k)
    THEN (CHOOSE k \in 1..Avail : RaisesAt(k) /\ \A m \in 1..(k - 1) : ~RaisesAt(m)) - 1
    ELSE Avail

\* the number of elements the arguments determine
ExpectedLen ==
    Min(BeforeFirstRaise, IF n_elements >= 1 THEN n_elements - 1 ELSE 0)

C2_YieldsMinAvailN ==
    (n_elements >= 1 /\ EndedNormally) => Len(yielded) = Min(Avail, n_elements)

\* C3: with n_elements <= 0 nothing is ever delivered, no pull raises, and the
\* first pull already ends the iteration.
C3_NonPositiveYieldsNothing ==
    n_elements <= 0 =>
        /\ yielded = <<>>
        /\ pc # "raised" /\ pc # "yielded"
        /\ last \in {"none", "StopIteration"}
        /\ last = "StopIteration" => EndedNormally

\* n_elements <= 0 with records and offsets at hand: the first pull returned
C3_Witness ==
    /\ n_elements <= 0 /\ Len(outputs) > 0 /\ batch_size > 0
    /\ pc = "returned" /\ count = 1 /\ yielded = <<>>

\* C4: when len(outputs) * batch_size < n_elements the generator never stops on the
\* count; the only error it can raise is the IndexError of a field shorter than
\* batch_size; once every pair is delivered the loops are over; and when it ends
\* normally it has delivered every (record, offset) pair, projected, in order.
C4_UnderSupplyYieldsAll ==
    Avail < n_elements =>
        /\ pc # "returned"
        /\ pc = "raised" => ~WellShaped
        /\ (Running /\ Len(yielded) = Avail) => ~HasNext
        /\ pc = "exhausted" =>
              /\ Len(yielded) = Avail
              /\ \A r \in 1..Len(outputs) : \A o \in 0..(batch_size - 1) :
                    /\ yielded[(r - 1) * batch_size + o + 1].rec = r - 1
                    /\ yielded[(r - 1) * batch_size + o + 1].off = o

\* four elements at hand, five asked for: all four delivered, then a normal end
C4_Witness ==
    /\ Avail = 4 /\ n_elements = 5
    /\ pc = "exhausted" /\ Len(yielded) = 4 /\ last = "StopIteration"

\* C5: the k-th element delivered (k from 0) comes from record k div batch_size at
\* offset k mod batch_size, so no pair is repeated or skipped; the sequence delivered
\* is a function of the arguments: each element is the projection of its pair and
\* the length at the end is the one the arguments determine.
C5_OrderIsRecordThenOffset ==
    /\ \A k \in 1..Len(yielded) :
          /\ batch_size >= 1
          /\ yielded[k].rec = RecOf(k)
          /\ yielded[k].off = OffOf(k)
          /\ yielded[k].rec < Len(outputs)
          /\ yielded[k].elem = Project(outputs[RecOf(k) + 1], OffOf(k))
    /\ Len(yielded) <= ExpectedLen
    /\ Finished => Len(yielded) = ExpectedLen

\* three elements delivered across two records of two offsets each
C5_Witness ==
    /\ batch_size = 2 /\ Len(yielded) = 3
    /\ yielded[3].rec = 1 /\ yielded[3].off = 0
    /\ yielded[2].rec = 0 /\ yielded[2].off = 1

\* the values of field x in [10,20], [30,40] with batch_size=2 and n_elements=4
ExampleRun ==
    /\ outputs = <<[x |-> Arange(10, 2)], [x |-> Arange(30, 2)]>>
    /\ batch_size = 2
    /\ n_elements = 4

\* C6: an element delivered for record r at offset o has exactly the field names of
\* r; a rank-0 field is r's value; a non-scalar field has the shape of r's value
\* without its leading dimension and holds the o-th slice of its entries. On the
\* fields [10,20] and [30,40] with batch_size=2 and n_elements=4 the run delivers
\* 10, 20, 30 and ends.
C6_FieldsProjected ==
    /\ \A k \in 1..Len(yielded) :
          LET r == outputs[yielded[k].rec + 1]
              o == yielded[k].off
              e == yielded[k].elem
          IN  /\ DOMAIN e = DOMAIN r
              /\ \A key \in DOMAIN r :
                    IF r[key].shape = <<>>
                    THEN e[key] = r[key]
                    ELSE /\ e[key].shape = Tail(r[key].shape)
                         /\ Len(e[key].data) * r[key].shape[1] = Len(r[key].data)
                         /\ \A j \in 1..Len(e[key].data) :
                               e[key].data[j] = r[key].data[o * Len(e[key].data) + j]
    /\ (ExampleRun /\ Finished) =>
          /\ Len(yielded) = 3
          /\ \A k \in 1..3 : yielded[k].elem = [x |-> Scalar(10 * k)]

\* a record with a scalar, a second offset of a matrix field, and the example run
C6_Witness ==
    /\ Len(yielded) = 3
    /\ "s" \in DOMAIN yielded[2].elem
    /\ yielded[2].off = 1
    /\ yielded[2].elem["x"].shape = <<2>>
    /\ yielded[2].elem["x"].data = <<60, 61>>

\* the spec's example run ended having delivered 10, 20, 30
C6_ExampleReached == ExampleRun /\ pc = "returned" /\ Len(yielded) = 3

\* C7: once the generator has ended (return on the count, end of the records, or
\* IndexError), every further pull is a StopIteration: nothing more is delivered,
\* the generator stays ended where it ended and its loops do not start again.
C7_SinglePass ==
    [][Finished =>
          /\ pc' = pc
          /\ yielded' = yielded
          /\ count' = count /\ oi' = oi /\ i' = i
          /\ last' = "StopIteration"]_vars

\* a generator that delivered elements, ended and was pulled again
C7_Witness == Finished /\ Len(yielded) >= 1 /\ extraPulls >= 1

\* C8: a pull raises IndexError only at an offset that is the leading dimension L of
\* a non-scalar field of the current record (L < batch_size), the first offset that
\* field cannot serve; that pull delivers nothing, the elements of all earlier pairs
\* have been delivered, no element was ever delivered for an offset outside a field,
\* a run whose count allows it to reach such an offset ends by that error, and the
\* generator is ended for good: later pulls deliver nothing.
C8_IndexErrorEndsIteration ==
    /\ [](/\ last = "IndexError" => pc = "raised"
          /\ pc = "raised" =>
                /\ oi < Len(outputs) /\ i < batch_size
                /\ \E key \in DOMAIN outputs[oi + 1] :
                      /\ outputs[oi + 1][key].shape # <<>>
                      /\ outputs[oi + 1][key].shape[1] = i
                /\ Len(yielded) = oi * batch_size + i
                /\ count = Len(yielded) + 1
                /\ count < n_elements
          /\ \A k \in 1..Len(yielded) :
                \A key \in DOMAIN outputs[yielded[k].rec + 1] :
                    outputs[yielded[k].rec + 1][key].shape # <<>> =>
                        yielded[k].off < outputs[yielded[k].rec + 1][key].shape[1]
          /\ (Finished /\ BeforeFirstRaise < Avail
                /\ BeforeFirstRaise + 1 < n_elements) => pc = "raised")
    /\ [][pc = "raised" => (pc' = "raised" /\ yielded' = yielded
                            /\ last' = "StopIteration")]_vars

\* a field of leading dimension 1 read with batch_size 2: one element, then the error
C8_Witness ==
    /\ pc = "raised" /\ last = "IndexError"
    /\ batch_size = 2 /\ i = 1 /\ Len(yielded) >= 1

-----------------------------------------------------------------------------
(* Properties of get_env *)

\* C9: get_env returns the variable's value when it is defined and non-empty; when
\* it is not defined it returns the default if one was given and raises KeyError
\* otherwise; when it is defined and empty it returns the default if one was given
\* and raises ValueError otherwise; an empty string is returned only as the
\* caller's own default; and the call leaves os.environ as it found it.
C9_GetEnvContract ==
    /\ [](envCall.kind = "get_env" =>
            LET env == envCall.seen
                name == envCall.env_name
                dflt == envCall.default
                res == envCall.result
            IN  /\ (name \in DOMAIN env /\ env[name] # "") =>
                       res = [kind |-> "return", value |-> env[name]]
                /\ (name \notin DOMAIN env /\ dflt # None) =>
                       res = [kind |-> "return", value |-> dflt[1]]
                /\ (name \notin DOMAIN env /\ dflt = None) =>
                       res = [kind |-> "KeyError"]
                /\ (name \in DOMAIN env /\ env[name] = "" /\ dflt # None) =>
                       res = [kind |-> "return", value |-> dflt[1]]
                /\ (name \in DOMAIN env /\ env[name] = "" /\ dflt = None) =>
                       res = [kind |-> "ValueError"]
                /\ (res.kind = "return" /\ res.value = "") => dflt = <<"">>)
    /\ [][envCall' # envCall => (environ' = environ /\ envCall'.seen = environ)]_vars

\* each of the five cases has been exercised
C9_Witness ==
    /\ envCall.kind = "get_env"
    /\ envCall.env_name \in DOMAIN envCall.seen
    /\ envCall.seen[envCall.env_name] = ""
    /\ envCall.default = None
    /\ envCall.result.kind = "ValueError"

-----------------------------------------------------------------------------
(* Properties of log_hyperparameters *)

\* the entries of the log that log_hyperparameters sent
SentEntries == {k \in 1..Len(logged) : logged[k].by = "log_hyperparameters"}

\* C10: once log_hyperparameters has been called, the logger holds exactly one entry
\* sent by it, the last of the log, which is the hparams of the first call with
\* params_total = params_trainable + params_not_trainable; and from then on no call,
\* by the trainer or of log_hyperparameters again, changes what the logger recorded
\* or gives the logger its method back.
C10_LoggedOnceThenDisabled ==
    /\ [](logCalls >= 1 =>
            /\ logDisabled
            /\ Cardinality(SentEntries) = 1
            /\ Len(logged) \in SentEntries
            /\ <<logged[Len(logged)].params>> = firstSent
            /\ logged[Len(logged)].params.params_total =
                  logged[Len(logged)].params.params_trainable
                  + logged[Len(logged)].params.params_not_trainable)
    /\ [][logDisabled => (logged' = logged /\ logDisabled')]_vars

\* a second log_hyperparameters call and a trainer call were made after the first
C10_Witness ==
    /\ logCalls = 2 /\ trainerCalls = 2
    /\ Len(logged) = 1
    /\ logged[1].params.params_trainable >= 1
    /\ logged[1].params.params_not_trainable >= 1

-----------------------------------------------------------------------------
(* Specifications *)

InitIterator == InitIter /\ IdleEnv /\ IdleLog

SpecIter == InitIterator /\ [][NextIter]_vars

SpecEnv == InitEnv /\ [][NextEnv]_vars

SpecLog == InitLog /\ [][NextLog]_vars

====
